---- MODULE Spec2Model ----
(***************************************************************************)
(* Model of ledcontrol_pull.py, the VPUniverse DOF config pull utility.   *)
(*                                                                         *)
(* The script is one sequential program; a run of it is a pass through    *)
(* pc = "checkdir" -> "query" -> "versioncheck" -> "mktemp" -> "download" *)
(* -> "extract" -> "finally" -> "persist" -> "exited".  The filesystem    *)
(* (destination directory, version record, temporary archive, config      *)
(* tree) outlives a run; the process variables do not.                    *)
(*                                                                         *)
(* Text is a sequence of one-character strings.  The character "sup2"     *)
(* stands for U+00B2 (superscript two), a character that str.isdigit()    *)
(* accepts and int() rejects.                                             *)
(*                                                                         *)
(* Faults modelled: an OSError from the makedirs of the destination, a    *)
(* non-200 status, a malformed body or a raised exception from either    *)
(* HTTP request, a short archive, and an exception raised while opening   *)
(* the archive or extracting a member.                                   *)
(***************************************************************************)
EXTENDS Integers, Sequences, FiniteSets, TLC

\* Number of successive runs of the script that are explored.
MaxRuns == 2

\* Largest version written and read back by the round-trip specification.
MaxVersion == 120

\* os.path.getsize(zip_path) < 1024
MinArchiveSize == 1024

VARIABLES
    run,                \* number of runs started so far
    pc,                 \* position of the current run in the script
    param_forceupdate,  \* --force
    param_verbose,      \* -V
    param_debug,        \* -D
    dirExists,          \* os.path.isdir(param_directoutputconfigpath)
    ini,                \* the version record file dofconfigversion.ini
    tree,               \* the config tree below the destination directory
    tmp,                \* the temporary archive at zip_path
    online_version,     \* <<>> while unassigned, else <<n>>
    ini_version,        \* <<>> while unassigned, else <<n>>
    bDoDownload,
    next_member,        \* index of the archive member extracted next
    pending,            \* what is propagating through the finally block
    out,                \* lines printed by the current run
    exitStatus,         \* <<>> while running, else <<status>>
    stage,              \* where the current run ended ("" while running)
    start,              \* the filesystem as the current run found it
    tmpCreated,         \* the current run has called mkstemp
    prev,               \* summary of the previous run
    \* dof.py
    self_handle,        \* _handle of each DOF instance, 0 for None or unset
    life,               \* "unborn", "made", or "with" inside a with block
    liveHandles,        \* handles dof_create returned and dof_destroy has not freed
    destroyCount,       \* dof_destroy calls made for each instance
    released,           \* the instance has passed its handle to dof_destroy
    misuse,             \* the library was handed a handle that is not live
    lastOp,             \* the latest operation on an instance and what it did
    log_callback_ref,   \* _log_callback_ref: 0 for None, else a ctypes wrapper
    native_cb,          \* callback pointer held by the library, 0 for null
    cb_pc,              \* position inside set_log_callback
    logResult           \* what the latest log message of the library did

scriptVars == <<run, pc, param_forceupdate, param_verbose, param_debug, dirExists,
          ini, tree, tmp, online_version, ini_version, bDoDownload,
          next_member, pending, out, exitStatus, stage, start, tmpCreated,
          prev>>

dofVars == <<self_handle, life, liveHandles, destroyCount, released, misuse,
             lastOp, log_callback_ref, native_cb, cb_pc, logResult>>

vars == <<scriptVars, dofVars>>

-----------------------------------------------------------------------------
\* Text

White == {" "}
DecDigits == <<"0", "1", "2", "3", "4", "5", "6", "7", "8", "9">>
DecDigitChars == {DecDigits[i] : i \in 1..10}
\* characters for which str.isdigit() is true
IsDigitChars == DecDigitChars \cup {"sup2"}

DigitVal(c) == (CHOOSE i \in 1..10 : DecDigits[i] = c) - 1

RECURSIVE LStrip(_)
LStrip(s) ==
    IF s = <<>> THEN s
    ELSE IF Head(s) \in White THEN LStrip(Tail(s)) ELSE s

RECURSIVE RStrip(_)
RStrip(s) ==
    IF s = <<>> THEN s
    ELSE IF s[Len(s)] \in White THEN RStrip(SubSeq(s, 1, Len(s) - 1)) ELSE s

\* str.strip()
Strip(s) == RStrip(LStrip(s))

LowerChar(c) ==
    CASE c = "V" -> "v"
      [] c = "E" -> "e"
      [] c = "R" -> "r"
      [] c = "S" -> "s"
      [] c = "I" -> "i"
      [] c = "O" -> "o"
      [] c = "N" -> "n"
      [] OTHER -> c

\* str.lower()
Lower(s) == [i \in 1..Len(s) |-> LowerChar(s[i])]

\* str.isdigit()
IsDigit(s) == s # <<>> /\ \A i \in 1..Len(s) : s[i] \in IsDigitChars

RECURSIVE DigitsValue(_)
DigitsValue(ds) ==
    IF ds = <<>> THEN 0
    ELSE DigitsValue(SubSeq(ds, 1, Len(ds) - 1)) * 10 + DigitVal(ds[Len(ds)])

\* int(s): <<n>>, or <<>> for ValueError
PyInt(s) ==
    LET t == Strip(s)
        signed == t # <<>> /\ Head(t) \in {"-", "+"}
        ds == IF signed THEN Tail(t) ELSE t
    IN  IF ds # <<>> /\ \A i \in 1..Len(ds) : ds[i] \in DecDigitChars
        THEN IF signed /\ Head(t) = "-" THEN << -DigitsValue(ds) >>
             ELSE << DigitsValue(ds) >>
        ELSE <<>>

\* f'{n}' for an int n >= 0
RECURSIVE Format(_)
Format(n) ==
    IF n < 10 THEN << DecDigits[n + 1] >>
    ELSE Format(n \div 10) \o << DecDigits[(n % 10) + 1] >>

-----------------------------------------------------------------------------
\* The version record

SectionName == <<"v", "e", "r", "s", "i", "o", "n">>
KeyName == <<"v", "e", "r", "s", "i", "o", "n">>

NoFile == [exists |-> FALSE, lines |-> <<>>]
File(ls) == [exists |-> TRUE, lines |-> ls]

\* the record written without its section header
VersionTextNoSection(n) == << KeyName \o <<"=">> \o Format(n) >>

\* f.write(f'[version]\nversion={n}\n')
VersionText(n) ==
    << <<"[">> \o SectionName \o <<"]">>, KeyName \o <<"=">> \o Format(n) >>

\* open(path, 'w') ... f.write(...)
WriteFile(ls) == File(ls)

\* ensure_ini without its os.path.exists test
ensure_ini_always(f) == WriteFile(VersionText(0))

\* ensure_ini
ensure_ini(f) == IF ~f.exists THEN WriteFile(VersionText(0)) ELSE f

\* index of the first "=" of line, 0 if none
RECURSIVE FirstEq(_, _)
FirstEq(line, i) ==
    IF i > Len(line) THEN 0
    ELSE IF line[i] = "=" THEN i ELSE FirstEq(line, i + 1)

\* the loop of read_ini from line i on
RECURSIVE ScanLines(_, _, _, _, _)
ScanLines(lines, i, in_section, section, key) ==
    IF i > Len(lines) THEN <<>>
    ELSE
      LET line == Strip(lines[i])
          eq == FirstEq(line, 1)
          k == SubSeq(line, 1, eq - 1)
          v == Strip(SubSeq(line, eq + 1, Len(line)))
      IN  IF Lower(line) = <<"[">> \o section \o <<"]">>
          THEN ScanLines(lines, i + 1, TRUE, section, key)
          ELSE IF ~in_section
          THEN ScanLines(lines, i + 1, in_section, section, key)
          ELSE IF line # <<>> /\ Head(line) = "["
          THEN <<>>
          ELSE IF eq # 0 /\ Lower(Strip(k)) = key
          THEN (IF v # <<>> THEN v ELSE <<" ">>)
          ELSE ScanLines(lines, i + 1, in_section, section, key)

\* read_ini comparing the line with the section name wrapped in brackets twice
read_ini_bracketed(f, section, key) ==
    IF ~f.exists THEN <<>>
    ELSE ScanLines(f.lines, 1, FALSE,
                   <<"[">> \o Lower(section) \o <<"]">>, Lower(key))

\* read_ini(file_path, section, key)
read_ini(f, section, key) ==
    IF ~f.exists THEN <<>>
    ELSE ScanLines(f.lines, 1, FALSE, Lower(section), Lower(key))

\* the except branch falling back to 0 in place of -1
LocalVersionZero(f) ==
    LET n == PyInt(read_ini(f, SectionName, KeyName))
    IN  IF n = <<>> THEN 0 ELSE n[1]

\* ini_version after the try/except around int(ini_version)
LocalVersion(f) ==
    LET n == PyInt(read_ini(f, SectionName, KeyName))
    IN  IF n = <<>> THEN -1 ELSE n[1]

\* the comparison with >= in place of >
NeedsUpdateOrEqual(online, local) == online >= local

\* bDoDownload = online_version > ini_version
NeedsUpdate(online, local) == online > local

-----------------------------------------------------------------------------
\* Inputs of a run

\* contents of dofconfigversion.ini that a run may find
SecLine == <<"[">> \o SectionName \o <<"]">>
KeyLine(v) == KeyName \o <<"=">> \o v
\* records without a usable version: no [version] section, no version key
\* in it, an empty value, a non-numeric value
CorruptRecords ==
    { File(<<>>),
      File(<< SecLine >>),
      File(<< KeyLine(<<"1">>) >>),
      File(<< SecLine, KeyLine(<<>>) >>),
      File(<< SecLine, KeyLine(<<"x">>) >>),
      File(<< SecLine, <<"[", "x", "]">>, KeyLine(<<"1">>) >>) }
\* records with a version that int() accepts
ReadableRecords ==
    { File(<< SecLine, KeyLine(<<"0">>) >>),
      File(<< SecLine, KeyLine(<<"1">>) >>),
      File(<< SecLine, KeyLine(<<"1", "1">>) >>),
      File(<< SecLine, KeyLine(<<"-", "1">>) >>),
      File(<< <<" ", "[", "V", "E", "R", "S", "I", "O", "N", "]">>,
              <<"x", "=", "1">>,
              <<"V", "e", "r", "s", "i", "o", "n", " ", "=", " ", "1", "0", " ">> >>) }
InitialRecords == {NoFile} \cup CorruptRecords \cup ReadableRecords

\* bodies the version endpoint may answer with
Bodies ==
    { <<>>,
      <<" ">>,
      <<"0">>,
      <<"1">>,
      <<"1", "0">>,
      <<"0", "1">>,
      <<" ", "1", " ">>,
      <<"x">>,
      <<"1", "x">>,
      <<"1", " ", "0">>,
      <<"-", "1">>,
      <<"sup2">>,
      <<"1", "sup2">> }

\* what requests.get(version_url) does: raise, or return a response
VersionResponses ==
    { [raised |-> TRUE, status_code |-> 0, text |-> <<>>] }
    \cup { [raised |-> FALSE, status_code |-> s, text |-> b] :
              s \in {200, 500}, b \in Bodies }

\* what requests.get(download_url, stream=True) and iter_content do:
\* raise at once, answer with a status, stream `size` bytes, or stream
\* `size` bytes and then raise
ArchiveSizes == {0, MinArchiveSize - 1, MinArchiveSize}
DownloadResponses ==
    { [raised |-> TRUE, status_code |-> 0, size |-> 0, broken |-> FALSE],
      [raised |-> FALSE, status_code |-> 500, size |-> 0, broken |-> FALSE] }
    \cup { [raised |-> FALSE, status_code |-> 200, size |-> n, broken |-> b] :
              n \in ArchiveSizes, b \in BOOLEAN }

\* z.infolist() of the served archive
Members ==
    << [filename |-> "cfg/", is_dir |-> TRUE, parent |-> ""],
       [filename |-> "cfg/a.ini", is_dir |-> FALSE, parent |-> "cfg/"],
       [filename |-> "b.xml", is_dir |-> FALSE, parent |-> ""] >>
FileNames == { Members[i].filename : i \in { j \in 1..Len(Members) : ~Members[j].is_dir } }

EmptyTree == [dirs |-> {}, files |-> [f \in FileNames |-> <<>>]]
NoTmp == [exists |-> FALSE, size |-> 0]
NoPrev == [ran |-> FALSE, exit |-> 0, online |-> <<>>, force |-> FALSE,
           download |-> FALSE, stage |-> ""]

-----------------------------------------------------------------------------
\* Printed lines

BannerLine == "**** VPUniverse DOF Config Tool Pull Utility"
DebugLines == <<"** Debug Parameters", "apikey =", "savefile =", "target =">>
ErrDir == "** Error: Could not create destination path"
ErrVersion == "** Error: Unable to get version."
ErrDownload == "** Error: Unable to download."
ErrArchive == "** Error: Archive not downloaded correctly."
WarnIni == "** Warning: Version not found in ini file. Updating regardless."
WarnNewer == "** Warning: Local version newer than online"
MsgCurrent == "** Version is current."
MsgDone == "**** Done - config updated ****"
\* the traceback the interpreter writes for an uncaught exception
Traceback == "Traceback (most recent call last):"

ErrorLines == {ErrDir, ErrVersion, ErrDownload, ErrArchive}

Say(cond, lines) == IF cond THEN lines ELSE <<>>

-----------------------------------------------------------------------------
\* dof.py before any DOF instance exists and any callback is set

\* the DOF instances of the program
DofObjects == {"d1", "d2"}
\* the non-null values dof_create may return
HandleAddrs == {1, 2}
\* the ctypes wrapper objects set_log_callback may create
WrapperIds == {1, 2, 3}

NoOp == [obj |-> "", op |-> "", live_before |-> FALSE,
         released_before |-> FALSE, calls |-> <<>>, raised |-> "none",
         body_raised |-> FALSE, propagated |-> FALSE]

DofIdle ==
    /\ self_handle = [o \in DofObjects |-> 0]
    /\ life = [o \in DofObjects |-> "unborn"]
    /\ liveHandles = {}
    /\ destroyCount = [o \in DofObjects |-> 0]
    /\ released = [o \in DofObjects |-> FALSE]
    /\ misuse = FALSE
    /\ lastOp = NoOp
    /\ log_callback_ref = 0
    /\ native_cb = 0
    /\ cb_pc = "idle"
    /\ logResult = "none"

-----------------------------------------------------------------------------
\* The state machine

Init ==
    /\ run = 0
    /\ pc = "idle"
    /\ param_forceupdate = FALSE
    /\ param_verbose = FALSE
    /\ param_debug = FALSE
    /\ dirExists \in BOOLEAN
    /\ ini \in InitialRecords
    /\ tree = EmptyTree
    /\ tmp = NoTmp
    /\ online_version = <<>>
    /\ ini_version = <<>>
    /\ bDoDownload = FALSE
    /\ next_member = 1
    /\ pending = "none"
    /\ out = <<>>
    /\ exitStatus = <<>>
    /\ stage = ""
    /\ start = [dirExists |-> dirExists, ini |-> ini, tree |-> tree]
    /\ tmpCreated = FALSE
    /\ prev = NoPrev
    /\ DofIdle

\* sys.exit() with the status left out
ExitZero(status, where) ==
    /\ pc' = "exited"
    /\ exitStatus' = << 0 >>
    /\ stage' = where

\* sys.exit(status), the end of the script, or an uncaught exception
Exit(status, where) ==
    /\ pc' = "exited"
    /\ exitStatus' = << status >>
    /\ stage' = where

\* A new process: argument parsing, banner and debug parameters.
StartRun(force, verbose, debug) ==
    /\ pc \in {"idle", "exited"}
    /\ run < MaxRuns
    /\ run' = run + 1
    /\ pc' = "checkdir"
    /\ param_forceupdate' = force
    /\ param_verbose' = verbose
    /\ param_debug' = debug
    /\ out' = Say(verbose, << BannerLine, "" >>) \o Say(debug, DebugLines)
    /\ online_version' = <<>>
    /\ ini_version' = <<>>
    /\ bDoDownload' = FALSE
    /\ next_member' = 1
    /\ pending' = "none"
    /\ exitStatus' = <<>>
    /\ stage' = ""
    /\ tmpCreated' = FALSE
    /\ start' = [dirExists |-> dirExists, ini |-> ini, tree |-> tree]
    /\ prev' = IF run = 0 THEN NoPrev
               ELSE [ran |-> TRUE, exit |-> exitStatus[1],
                     online |-> online_version, force |-> param_forceupdate,
                     download |-> bDoDownload, stage |-> stage]
    /\ UNCHANGED <<dirExists, ini, tree, tmp>>
    /\ UNCHANGED dofVars

\* Validate / create target folder; created is whether os.makedirs succeeds.
CheckTargetDir(created) ==
    /\ pc = "checkdir"
    /\ IF dirExists
       THEN /\ pc' = "query"
            /\ UNCHANGED <<dirExists, out, exitStatus, stage>>
       ELSE IF created
       THEN /\ dirExists' = TRUE
            /\ pc' = "query"
            /\ UNCHANGED <<out, exitStatus, stage>>
       ELSE /\ out' = out \o << ErrDir >>
            /\ Exit(1, "dir")
            /\ UNCHANGED dirExists
    /\ UNCHANGED <<run, param_forceupdate, param_verbose, param_debug, ini,
                   tree, tmp, online_version, ini_version, bDoDownload,
                   next_member, pending, start, tmpCreated, prev>>
    /\ UNCHANGED dofVars

\* the test of the answer without the status code
VersionAnswerOkAnyStatus(r) == IsDigit(Strip(r.text))

\* r.status_code == 200 and r.text.strip().isdigit()
VersionAnswerOk(r) == r.status_code = 200 /\ IsDigit(Strip(r.text))

\* Always fetch the online version.
QueryVersion(r) ==
    /\ pc = "query"
    /\ LET asking == Say(param_debug \/ param_verbose,
                         << "**** Requesting Online Version ****" >>)
           text == Strip(r.text)
       IN  IF r.raised
           THEN /\ out' = out \o asking \o << Traceback >>
                /\ Exit(1, "query")
                /\ UNCHANGED online_version
           ELSE IF VersionAnswerOk(r)
           THEN IF PyInt(text) = <<>>
                THEN /\ out' = out \o asking \o << Traceback >>
                     /\ Exit(1, "query")
                     /\ UNCHANGED online_version
                ELSE /\ online_version' = PyInt(text)
                     /\ out' = out \o asking
                               \o Say(param_debug \/ param_verbose,
                                      << "Online Version =" >>)
                     /\ pc' = "versioncheck"
                     /\ UNCHANGED <<exitStatus, stage>>
           ELSE /\ out' = out \o asking \o << ErrVersion >>
                /\ Exit(1, "query")
                /\ UNCHANGED online_version
    /\ UNCHANGED <<run, param_forceupdate, param_verbose, param_debug,
                   dirExists, ini, tree, tmp, ini_version, bDoDownload,
                   next_member, pending, start, tmpCreated, prev>>
    /\ UNCHANGED dofVars

\* Version check: ensure_ini, then the decision.
VersionCheck ==
    /\ pc = "versioncheck"
    /\ ini' = ensure_ini(ini)
    /\ LET local == LocalVersion(ini')
           verbose == param_debug \/ param_verbose
           download == NeedsUpdate(online_version[1], local)
       IN  IF param_forceupdate
           THEN /\ bDoDownload' = TRUE
                /\ pc' = "mktemp"
                /\ UNCHANGED <<ini_version, out, exitStatus, stage>>
           ELSE /\ ini_version' = << local >>
                /\ bDoDownload' = download
                /\ out' = out
                     \o Say(verbose, << "**** Checking INI Version ****" >>)
                     \o Say(PyInt(read_ini(ini', SectionName, KeyName)) = <<>>,
                            << WarnIni >>)
                     \o Say(verbose, << "INI Version =" >>)
                     \o Say(~download,
                            IF online_version[1] < local
                            THEN << WarnNewer >> ELSE << MsgCurrent >>)
                /\ IF download
                   THEN pc' = "mktemp" /\ UNCHANGED <<exitStatus, stage>>
                   ELSE Exit(0, "skip")
    /\ UNCHANGED <<run, param_forceupdate, param_verbose, param_debug,
                   dirExists, tree, tmp, online_version, next_member, pending,
                   start, tmpCreated, prev>>
    /\ UNCHANGED dofVars

\* tempfile.mkstemp
MkTemp ==
    /\ pc = "mktemp"
    /\ out' = out \o Say(param_debug \/ param_verbose,
                         << "**** Requesting File ****" >>)
    /\ tmp' = [exists |-> TRUE, size |-> 0]
    /\ tmpCreated' = TRUE
    /\ pc' = "download"
    /\ UNCHANGED <<run, param_forceupdate, param_verbose, param_debug,
                   dirExists, ini, tree, online_version, ini_version,
                   bDoDownload, next_member, pending, exitStatus, stage,
                   start, prev>>
    /\ UNCHANGED dofVars

\* The request, the streamed write and the size validation.
Download(r) ==
    /\ pc = "download"
    /\ LET status == Say(param_debug, << "STATUS:", "CONTENT-TYPE:" >>)
       IN  IF r.raised
           THEN /\ pending' = "exception"
                /\ stage' = "request"
                /\ pc' = "finally"
                /\ UNCHANGED <<tmp, out>>
           ELSE IF r.status_code # 200
           THEN /\ out' = out \o status \o << ErrDownload >>
                /\ pending' = "exit"
                /\ stage' = "status"
                /\ pc' = "finally"
                /\ UNCHANGED tmp
           ELSE /\ tmp' = [exists |-> TRUE, size |-> r.size]
                /\ IF r.broken
                   THEN /\ out' = out \o status
                        /\ pending' = "exception"
                        /\ stage' = "request"
                        /\ pc' = "finally"
                   ELSE IF ~tmp'.exists \/ tmp'.size < MinArchiveSize
                   THEN /\ out' = out \o status \o << ErrArchive >>
                        /\ pending' = "exit"
                        /\ stage' = "size"
                        /\ pc' = "finally"
                   ELSE /\ out' = out \o status
                               \o Say(param_debug \/ param_verbose,
                                      << "**** Extracting Files ****",
                                         "From:", "To:" >>)
                        /\ pc' = "extract"
                        /\ UNCHANGED <<pending, stage>>
    /\ UNCHANGED <<run, param_forceupdate, param_verbose, param_debug,
                   dirExists, ini, tree, online_version, ini_version,
                   bDoDownload, next_member, exitStatus, start, tmpCreated,
                   prev>>
    /\ UNCHANGED dofVars

\* One pass of the loop over z.infolist().
Extracted(t, m, version) ==
    IF m.is_dir
    THEN [t EXCEPT !.dirs = @ \cup {m.filename}]
    ELSE [t EXCEPT !.dirs = IF m.parent = "" THEN @ ELSE @ \cup {m.parent},
                   !.files[m.filename] = << version >>]

ExtractMember ==
    /\ pc = "extract"
    /\ next_member <= Len(Members)
    /\ tree' = Extracted(tree, Members[next_member], online_version[1])
    /\ next_member' = next_member + 1
    /\ pc' = IF next_member = Len(Members) THEN "finally" ELSE "extract"
    /\ UNCHANGED <<run, param_forceupdate, param_verbose, param_debug,
                   dirExists, ini, tmp, online_version, ini_version,
                   bDoDownload, pending, out, exitStatus, stage, start,
                   tmpCreated, prev>>
    /\ UNCHANGED dofVars

\* zipfile.ZipFile, z.open, os.makedirs or out.write raises.
ExtractRaises ==
    /\ pc = "extract"
    /\ pending' = "exception"
    /\ stage' = "extract"
    /\ pc' = "finally"
    /\ UNCHANGED <<run, param_forceupdate, param_verbose, param_debug,
                   dirExists, ini, tree, tmp, online_version, ini_version,
                   bDoDownload, next_member, out, exitStatus, start,
                   tmpCreated, prev>>
    /\ UNCHANGED dofVars

\* the finally block without its os.remove
RemovedNever(t) == t

\* os.remove(zip_path)
Removed(t) == IF t.exists THEN NoTmp ELSE t

\* the finally block with the INI update moved into it
FinallyWritesRecord ==
    /\ pc = "finally"
    /\ tmp' = Removed(tmp)
    /\ ini' = WriteFile(VersionText(online_version[1]))
    /\ CASE pending = "none" ->
              /\ pc' = "persist"
              /\ UNCHANGED <<out, exitStatus, stage>>
         [] pending = "exit" ->
              /\ pc' = "exited"
              /\ exitStatus' = << 1 >>
              /\ UNCHANGED <<out, stage>>
         [] pending = "exception" ->
              /\ out' = out \o << Traceback >>
              /\ pc' = "exited"
              /\ exitStatus' = << 1 >>
              /\ UNCHANGED stage
    /\ UNCHANGED <<run, param_forceupdate, param_verbose, param_debug,
                   dirExists, tree, online_version, ini_version,
                   bDoDownload, next_member, pending, start, tmpCreated, prev>>
    /\ UNCHANGED dofVars

\* The finally block, then whatever was propagating through it.
Finally ==
    /\ pc = "finally"
    /\ tmp' = Removed(tmp)
    /\ CASE pending = "none" ->
              /\ pc' = "persist"
              /\ UNCHANGED <<out, exitStatus, stage>>
         [] pending = "exit" ->
              /\ pc' = "exited"
              /\ exitStatus' = << 1 >>
              /\ UNCHANGED <<out, stage>>
         [] pending = "exception" ->
              /\ out' = out \o << Traceback >>
              /\ pc' = "exited"
              /\ exitStatus' = << 1 >>
              /\ UNCHANGED stage
    /\ UNCHANGED <<run, param_forceupdate, param_verbose, param_debug,
                   dirExists, ini, tree, online_version, ini_version,
                   bDoDownload, next_member, pending, start, tmpCreated, prev>>
    /\ UNCHANGED dofVars

\* the completion message under "if param_debug or param_verbose"
DoneLinesDebugToo(verbose, debug) == Say(verbose \/ debug, << MsgDone >>)

\* if param_verbose: print("**** Done ...")
DoneLines(verbose, debug) == Say(verbose, << MsgDone >>)

\* Update stored version in INI, completion message, end of the script.
PersistVersion ==
    /\ pc = "persist"
    /\ ini' = WriteFile(VersionText(online_version[1]))
    /\ out' = out \o DoneLines(param_verbose, param_debug)
    /\ Exit(0, "installed")
    /\ UNCHANGED <<run, param_forceupdate, param_verbose, param_debug,
                   dirExists, tree, tmp, online_version, ini_version,
                   bDoDownload, next_member, pending, start, tmpCreated, prev>>
    /\ UNCHANGED dofVars

Next ==
    \/ \E force, verbose, debug \in BOOLEAN : StartRun(force, verbose, debug)
    \/ \E created \in BOOLEAN : CheckTargetDir(created)
    \/ \E r \in VersionResponses : QueryVersion(r)
    \/ VersionCheck
    \/ MkTemp
    \/ \E r \in DownloadResponses : Download(r)
    \/ ExtractMember
    \/ ExtractRaises
    \/ Finally
    \/ PersistVersion

Spec == Init /\ [][Next]_vars

-----------------------------------------------------------------------------
\* The version record on its own: the writes of ensure_ini and of the INI
\* update, each followed by the read of the version check, for every version
\* up to MaxVersion.  run counts the writes, start.ini is the record before
\* the latest write.

InitRT ==
    /\ run = 0
    /\ pc = "rt_new"
    /\ param_forceupdate = FALSE
    /\ param_verbose = FALSE
    /\ param_debug = FALSE
    /\ dirExists = TRUE
    /\ ini = NoFile
    /\ tree = EmptyTree
    /\ tmp = NoTmp
    /\ online_version \in { << v >> : v \in 0..MaxVersion }
    /\ ini_version = <<>>
    /\ bDoDownload = FALSE
    /\ next_member = 1
    /\ pending = "none"
    /\ out = <<>>
    /\ exitStatus = <<>>
    /\ stage = ""
    /\ start = [dirExists |-> TRUE, ini |-> NoFile, tree |-> EmptyTree]
    /\ tmpCreated = FALSE
    /\ prev = NoPrev
    /\ DofIdle

RTUnchanged ==
    UNCHANGED <<param_forceupdate, param_verbose, param_debug, dirExists,
                tree, tmp, online_version, bDoDownload, next_member, pending,
                out, exitStatus, stage, tmpCreated, prev, dofVars>>

\* ensure_ini(ini_file) on a missing record
RTEnsure ==
    /\ pc = "rt_new"
    /\ online_version = << 0 >>
    /\ ini' = ensure_ini(ini)
    /\ start' = [start EXCEPT !.ini = ini]
    /\ run' = run + 1
    /\ pc' = "rt_written"
    /\ UNCHANGED ini_version
    /\ RTUnchanged

\* the INI update with online_version
RTWrite ==
    /\ pc \in {"rt_new", "rt_read"}
    /\ run < MaxRuns
    /\ ini' = WriteFile(VersionText(online_version[1]))
    /\ start' = [start EXCEPT !.ini = ini]
    /\ run' = run + 1
    /\ pc' = "rt_written"
    /\ UNCHANGED ini_version
    /\ RTUnchanged

\* ini_version = read_ini(ini_file, "version", "version"), then int()
RTRead ==
    /\ pc = "rt_written"
    /\ ini_version' = << LocalVersion(ini) >>
    /\ pc' = "rt_read"
    /\ UNCHANGED <<run, ini, start>>
    /\ RTUnchanged

NextRT == RTEnsure \/ RTWrite \/ RTRead

SpecRT == InitRT /\ [][NextRT]_vars

-----------------------------------------------------------------------------
\* dof.py: DOF instances over the native library.  Each method call is one
\* step.  The library is the set of live handles; it is handed handles by
\* the calls listed in lastOp.calls.

InitDOF ==
    /\ run = 0
    /\ pc = "dof"
    /\ param_forceupdate = FALSE
    /\ param_verbose = FALSE
    /\ param_debug = FALSE
    /\ dirExists = TRUE
    /\ ini = NoFile
    /\ tree = EmptyTree
    /\ tmp = NoTmp
    /\ online_version = <<>>
    /\ ini_version = <<>>
    /\ bDoDownload = FALSE
    /\ next_member = 1
    /\ pending = "none"
    /\ out = <<>>
    /\ exitStatus = <<>>
    /\ stage = ""
    /\ start = [dirExists |-> TRUE, ini |-> NoFile, tree |-> EmptyTree]
    /\ tmpCreated = FALSE
    /\ prev = NoPrev
    /\ DofIdle

Call(fn, h) == [fn |-> fn, handle |-> h]

\* the library after the calls cs: dof_destroy frees its handle
RECURSIVE LiveAfter(_, _)
LiveAfter(live, cs) ==
    IF cs = <<>> THEN live
    ELSE LiveAfter(IF Head(cs).fn = "dof_destroy"
                   THEN live \ {Head(cs).handle} ELSE live,
                   Tail(cs))

\* some call of cs hands the library a handle that is not live
RECURSIVE Misused(_, _)
Misused(live, cs) ==
    IF cs = <<>> THEN FALSE
    ELSE \/ Head(cs).handle \notin live
         \/ Misused(LiveAfter(live, << Head(cs) >>), Tail(cs))

Destroys(cs) == Cardinality({ i \in 1..Len(cs) : cs[i].fn = "dof_destroy" })

\* destroy() leaving the handle in place
HandleAfterDestroyKept(h) == h

\* self._handle = None
HandleAfterDestroy(h) == 0

\* finish(): if self._handle: self._lib.dof_finish(self._handle)
FinishCalls(h) == IF h # 0 THEN << Call("dof_finish", h) >> ELSE <<>>

\* destroy(): if self._handle: self._lib.dof_destroy(self._handle)
DestroyCalls(h) == IF h # 0 THEN << Call("dof_destroy", h) >> ELSE <<>>

\* __exit__ without its finish()
ExitCallsNoFinish(h) == DestroyCalls(h)

\* __exit__: self.finish(); self.destroy()
ExitCalls(h) == FinishCalls(h) \o DestroyCalls(h)

\* return False   # do not suppress exceptions
ExitReturns == FALSE

\* what an operation on instance o does: the calls it makes, the handle it
\* leaves, the exception it raises
Operate(o, op, cs, h, raised, body_raised, propagated) ==
    /\ lastOp' = [obj |-> o, op |-> op,
                  live_before |-> self_handle[o] # 0,
                  released_before |-> released[o],
                  calls |-> cs, raised |-> raised,
                  body_raised |-> body_raised, propagated |-> propagated]
    /\ self_handle' = [self_handle EXCEPT ![o] = h]
    /\ liveHandles' = LiveAfter(liveHandles, cs)
    /\ misuse' = (misuse \/ Misused(liveHandles, cs))
    /\ destroyCount' =
          [destroyCount EXCEPT ![o] = IF @ + Destroys(cs) > 2 THEN 2
                                      ELSE @ + Destroys(cs)]
    /\ released' = [released EXCEPT ![o] = @ \/ Destroys(cs) > 0]

\* DOF.__init__; h is what dof_create returns, 0 for NULL
DofCreate(o, h) ==
    /\ life[o] = "unborn"
    /\ h \notin liveHandles
    /\ life' = [life EXCEPT ![o] = "made"]
    /\ lastOp' = [obj |-> o, op |-> "__init__", live_before |-> FALSE,
                  released_before |-> FALSE,
                  calls |-> << Call("dof_create", h) >>,
                  raised |-> IF h = 0 THEN "RuntimeError" ELSE "none",
                  body_raised |-> FALSE, propagated |-> FALSE]
    /\ self_handle' = [self_handle EXCEPT ![o] = h]
    /\ liveHandles' = IF h = 0 THEN liveHandles ELSE liveHandles \cup {h}
    /\ UNCHANGED <<misuse, destroyCount, released>>
    /\ UNCHANGED <<log_callback_ref, native_cb, cb_pc, logResult>>
    /\ UNCHANGED scriptVars

\* _require_handle, then dof_init
DofInit(o) ==
    /\ life[o] # "unborn"
    /\ IF self_handle[o] = 0
       THEN Operate(o, "init", <<>>, self_handle[o], "RuntimeError", FALSE, FALSE)
       ELSE Operate(o, "init", << Call("dof_init", self_handle[o]) >>,
                    self_handle[o], "none", FALSE, FALSE)
    /\ UNCHANGED <<life, log_callback_ref, native_cb, cb_pc, logResult>>
    /\ UNCHANGED scriptVars

\* _require_handle, then dof_data_receive
DofDataReceive(o) ==
    /\ life[o] # "unborn"
    /\ IF self_handle[o] = 0
       THEN Operate(o, "data_receive", <<>>, self_handle[o], "RuntimeError",
                    FALSE, FALSE)
       ELSE Operate(o, "data_receive",
                    << Call("dof_data_receive", self_handle[o]) >>,
                    self_handle[o], "none", FALSE, FALSE)
    /\ UNCHANGED <<life, log_callback_ref, native_cb, cb_pc, logResult>>
    /\ UNCHANGED scriptVars

\* finish()
DofFinish(o) ==
    /\ life[o] # "unborn"
    /\ Operate(o, "finish", FinishCalls(self_handle[o]), self_handle[o],
               "none", FALSE, FALSE)
    /\ UNCHANGED <<life, log_callback_ref, native_cb, cb_pc, logResult>>
    /\ UNCHANGED scriptVars

\* destroy()
DofDestroy(o) ==
    /\ life[o] # "unborn"
    /\ Operate(o, "destroy", DestroyCalls(self_handle[o]),
               IF self_handle[o] # 0 THEN HandleAfterDestroy(self_handle[o])
               ELSE self_handle[o],
               "none", FALSE, FALSE)
    /\ UNCHANGED <<life, log_callback_ref, native_cb, cb_pc, logResult>>
    /\ UNCHANGED scriptVars

\* __enter__
DofEnter(o) ==
    /\ life[o] = "made"
    /\ life' = [life EXCEPT ![o] = "with"]
    /\ Operate(o, "__enter__", <<>>, self_handle[o], "none", FALSE, FALSE)
    /\ UNCHANGED <<log_callback_ref, native_cb, cb_pc, logResult>>
    /\ UNCHANGED scriptVars

\* __exit__ at the end of the with block; body_raised is whether the body
\* of the block raised
DofExit(o, body_raised) ==
    /\ life[o] = "with"
    /\ life' = [life EXCEPT ![o] = "made"]
    /\ Operate(o, "__exit__", ExitCalls(self_handle[o]),
               IF self_handle[o] # 0 THEN HandleAfterDestroy(self_handle[o])
               ELSE self_handle[o],
               "none", body_raised, body_raised /\ ~ExitReturns)
    /\ UNCHANGED <<log_callback_ref, native_cb, cb_pc, logResult>>
    /\ UNCHANGED scriptVars

\* __del__
DofDel(o) ==
    /\ life[o] # "unborn"
    /\ Operate(o, "__del__", DestroyCalls(self_handle[o]),
               IF self_handle[o] # 0 THEN 0 ELSE self_handle[o],
               "none", FALSE, FALSE)
    /\ UNCHANGED <<life, log_callback_ref, native_cb, cb_pc, logResult>>
    /\ UNCHANGED scriptVars

\* set_log_callback, one step per statement.  A ctypes wrapper lives as long
\* as _log_callback_ref refers to it: the module holds no other reference.

DofUnchanged ==
    UNCHANGED <<self_handle, life, liveHandles, destroyCount, released,
                misuse, lastOp>>

\* callback is None: _log_callback_ref = None
SetLogCallbackNoneClear ==
    /\ cb_pc = "idle"
    /\ log_callback_ref' = 0
    /\ cb_pc' = "unregister"
    /\ UNCHANGED <<native_cb, logResult>>
    /\ DofUnchanged
    /\ UNCHANGED scriptVars

\* callback is None: lib.dof_config_set_log_callback(None)
SetLogCallbackNoneNative ==
    /\ cb_pc = "unregister"
    /\ native_cb' = 0
    /\ cb_pc' = "idle"
    /\ UNCHANGED <<log_callback_ref, logResult>>
    /\ DofUnchanged
    /\ UNCHANGED scriptVars

\* _log_callback_ref = _LogCallbackType(_c_callback); w is the new wrapper
SetLogCallbackWrap(w) ==
    /\ cb_pc = "idle"
    /\ w \notin {log_callback_ref, native_cb}
    /\ log_callback_ref' = w
    /\ cb_pc' = "register"
    /\ UNCHANGED <<native_cb, logResult>>
    /\ DofUnchanged
    /\ UNCHANGED scriptVars

\* lib.dof_config_set_log_callback(_log_callback_ref)
SetLogCallbackNative ==
    /\ cb_pc = "register"
    /\ native_cb' = log_callback_ref
    /\ cb_pc' = "idle"
    /\ UNCHANGED <<log_callback_ref, logResult>>
    /\ DofUnchanged
    /\ UNCHANGED scriptVars

\* A thread of the library emits a log message through the pointer it
\* holds.  Calling a wrapper that has been released is undefined: the call
\* may run whatever is at the address now, or crash.
NativeLog(undefined) ==
    /\ logResult' =
          IF native_cb = 0 THEN "dropped"
          ELSE IF native_cb = log_callback_ref THEN "delivered"
          ELSE undefined
    /\ UNCHANGED <<log_callback_ref, native_cb, cb_pc>>
    /\ DofUnchanged
    /\ UNCHANGED scriptVars

NextDOF ==
    \/ \E o \in DofObjects, h \in HandleAddrs \cup {0} : DofCreate(o, h)
    \/ \E o \in DofObjects : DofInit(o)
    \/ \E o \in DofObjects : DofDataReceive(o)
    \/ \E o \in DofObjects : DofFinish(o)
    \/ \E o \in DofObjects : DofDestroy(o)
    \/ \E o \in DofObjects : DofEnter(o)
    \/ \E o \in DofObjects, body_raised \in BOOLEAN : DofExit(o, body_raised)
    \/ \E o \in DofObjects : DofDel(o)
    \/ SetLogCallbackNoneClear
    \/ SetLogCallbackNoneNative
    \/ \E w \in WrapperIds : SetLogCallbackWrap(w)
    \/ SetLogCallbackNative
    \/ \E undefined \in {"stale_call", "crash"} : NativeLog(undefined)

SpecDOF == InitDOF /\ [][NextDOF]_vars

-----------------------------------------------------------------------------
\* Properties

\* the current run is past the version check
Decided == online_version # <<>> /\ pc # "versioncheck"
\* the current run entered the download-and-install step
EnteredDownload == pc = "mktemp" \/ tmpCreated
\* the current run took the skip path
Skipped == pc = "exited" /\ stage = "skip"
Exited == pc = "exited"
\* every member of the archive is in the config tree with this run's content
AllExtracted ==
    /\ \A f \in FileNames : tree.files[f] = online_version
    /\ \A i \in 1..Len(Members) :
          Members[i].is_dir => Members[i].filename \in tree.dirs

\* C1: a run enters the download-and-install step if and only if the force
\* flag is set or the remote version R is greater than the local version L
\* it read from the version record (-1 if unreadable); it skips the download
\* if and only if force is not set and R <= L.
C1_DownloadIffForcedOrNewer ==
    Decided =>
      /\ EnteredDownload <=>
            (param_forceupdate \/ online_version[1] > ini_version[1])
      /\ Skipped <=>
            (~param_forceupdate /\ online_version[1] <= ini_version[1])
      /\ ~param_forceupdate =>
            ini_version[1] =
               (IF PyInt(read_ini(ensure_ini(start.ini), SectionName, KeyName)) = <<>>
                THEN -1
                ELSE PyInt(read_ini(ensure_ini(start.ini), SectionName, KeyName))[1])

C1_Witness ==
    /\ pc = "exited" /\ stage = "skip"
    /\ ~param_forceupdate
    /\ online_version[1] < ini_version[1]

\* C2: a version record that exists when a run starts is overwritten only
\* after the download, the size validation and the extraction of every
\* member have completed without error, and then holds the remote version of
\* that run; on every other path it keeps the value it had before the run.
C2_RecordOverwrittenOnlyAfterInstall ==
    (run >= 1 /\ start.ini.exists) =>
      IF pc = "exited" /\ stage = "installed"
      THEN /\ PyInt(read_ini(ini, SectionName, KeyName)) = online_version
           /\ ini.lines = VersionText(online_version[1])
           /\ tmpCreated /\ pending = "none"
           /\ AllExtracted
      ELSE ini = start.ini

C2_Witness ==
    /\ pc = "exited" /\ stage = "installed"
    /\ start.ini.exists
    /\ ini # start.ini

\* C3: once a run has created the temporary archive, the archive no longer
\* exists when the run ends, whatever the exit path.
C3_TempArtifactGone == (Exited /\ tmpCreated) => ~tmp.exists

C3_Witness ==
    /\ Exited /\ tmpCreated
    /\ stage = "extract"
    /\ ~tmp.exists

\* line was printed by the current run
Printed(line) == \E i \in 1..Len(out) : out[i] = line
LastLine == IF out = <<>> THEN "" ELSE out[Len(out)]
\* number of '** Error: ...' lines printed by the current run
ErrorCount == Cardinality({ i \in 1..Len(out) : out[i] \in ErrorLines })

\* C4 as stated: in a run without force, an absent or corrupt version record
\* is treated as local version -1 with a warning, and the run goes on.
C4_Original ==
    (Decided /\ ~param_forceupdate
       /\ start.ini \in CorruptRecords \cup {NoFile}) =>
      /\ ini_version = << -1 >>
      /\ Printed(WarnIni)
      /\ EnteredDownload

\* C4 as amended: in a run without force, a record file that exists but has
\* no usable version is read as -1 with a warning and leads to the download;
\* an absent file is first created with version 0 and read as 0 without a
\* warning; with force the record is not read; the version check itself
\* never ends the run with a failure.
C4_CorruptIsMinusOneAbsentIsZero ==
    Decided =>
      /\ (~param_forceupdate /\ start.ini \in CorruptRecords) =>
            /\ ini_version = << -1 >>
            /\ Printed(WarnIni)
            /\ EnteredDownload
      /\ (~param_forceupdate /\ ~start.ini.exists) =>
            /\ ini_version = << 0 >>
            /\ ~Printed(WarnIni)
            /\ EnteredDownload <=> online_version[1] > 0
      /\ param_forceupdate =>
            /\ ini_version = <<>>
            /\ ~Printed(WarnIni)
            /\ EnteredDownload
      /\ ~EnteredDownload => (Exited /\ stage = "skip" /\ exitStatus = << 0 >>)

C4_Witness ==
    /\ pc = "mktemp"
    /\ ~param_forceupdate
    /\ start.ini \in CorruptRecords
    /\ online_version = << 0 >>
    /\ ini_version = << -1 >>
    /\ Printed(WarnIni)

\* C5 as stated: a run without force that follows a run without force and
\* gets the same remote version performs no download.
C5_Original ==
    (prev.ran /\ ~prev.force /\ ~param_forceupdate
       /\ Decided /\ online_version = prev.online) =>
      ~EnteredDownload

\* C5 as amended: the same, provided the first run ended with exit status 0
\* (it installed, or it skipped).
C5_SecondRunSkipsAfterSuccess ==
    (prev.ran /\ ~prev.force /\ ~param_forceupdate /\ prev.exit = 0
       /\ Decided /\ online_version = prev.online) =>
      (~EnteredDownload /\ ~bDoDownload /\ Skipped)

C5_Witness ==
    /\ prev.ran /\ ~prev.force /\ prev.stage = "installed"
    /\ ~param_forceupdate
    /\ online_version = prev.online
    /\ Skipped

\* the answer of the version endpoint is not a success status with a
\* non-negative integer literal as its trimmed body
BadVersionAnswer(r) ==
    /\ ~r.raised
    /\ \/ r.status_code # 200
       \/ Strip(r.text) = <<>>
       \/ \E i \in 1..Len(Strip(r.text)) : Strip(r.text)[i] \notin DecDigitChars

\* C6 as stated: when the version endpoint gives a bad answer the run prints
\* an error and exits with status 1, and nothing on the filesystem was
\* created or modified by the run: destination directory, version record,
\* temporary archive, config tree.
C6_Original ==
    [][ \A r \in VersionResponses :
          (QueryVersion(r) /\ BadVersionAnswer(r)) =>
            /\ exitStatus' = << 1 >>
            /\ out'[Len(out')] \in {ErrVersion, Traceback}
            /\ dirExists' = start.dirExists
            /\ ini' = start.ini
            /\ tree' = start.tree
            /\ ~tmp'.exists /\ ~tmpCreated' ]_vars

\* C6 as amended: the run exits with status 1 after printing the error line
\* (for a body of digit characters that int() rejects: after the traceback of
\* the uncaught ValueError), and version record, temporary archive and config
\* tree are untouched; the destination directory, if it was missing, has
\* been created by the run.
C6_BadAnswerExitsWithoutFileWrites ==
    [][ \A r \in VersionResponses :
          (QueryVersion(r) /\ BadVersionAnswer(r)) =>
            /\ exitStatus' = << 1 >>
            /\ pc' = "exited"
            /\ out'[Len(out')] =
                 (IF r.status_code = 200 /\ IsDigit(Strip(r.text))
                  THEN Traceback ELSE ErrVersion)
            /\ dirExists'
            /\ ini' = start.ini
            /\ tree' = start.tree
            /\ ~tmp'.exists /\ ~tmpCreated' ]_vars

C6_Witness ==
    /\ Exited /\ stage = "query"
    /\ exitStatus = << 1 >>
    /\ LastLine = ErrVersion
    /\ ~start.dirExists /\ dirExists
    /\ ini = start.ini /\ tree = start.tree

\* C7 as stated: a run that fails during extraction leaves the version
\* record unmodified, and the next run with the same remote version, whatever
\* its flags, decides to download.
C7_Original ==
    /\ (Exited /\ stage = "extract" /\ start.ini.exists) => ini = start.ini
    /\ (prev.ran /\ prev.stage = "extract"
          /\ Decided /\ online_version = prev.online) =>
         EnteredDownload

\* C7 as amended: a run that fails during extraction leaves the version
\* record as the version check left it (unmodified if it existed, version 0
\* if it was created), and the next run with the same remote version decides
\* to download when it is forced or the failed run was not forced.
C7_RetryAfterFailedExtraction ==
    /\ (Exited /\ stage = "extract") =>
         IF start.ini.exists THEN ini = start.ini
         ELSE PyInt(read_ini(ini, SectionName, KeyName)) = << 0 >>
    /\ (prev.ran /\ prev.stage = "extract"
          /\ Decided /\ online_version = prev.online
          /\ (param_forceupdate \/ ~prev.force)) =>
         EnteredDownload

C7_Witness ==
    /\ prev.ran /\ prev.stage = "extract" /\ ~prev.force
    /\ ~param_forceupdate
    /\ online_version = prev.online
    /\ pc = "mktemp"
    /\ tree.dirs # {}
    /\ \E f \in FileNames : tree.files[f] = <<>>

\* C8 as stated: every run that ends otherwise than by an install or a skip
\* has printed one '** Error: ...' line and exits with a non-zero status;
\* an install and a skip exit with status 0.
C8_Original ==
    Exited =>
      IF stage \in {"installed", "skip"}
      THEN exitStatus = << 0 >>
      ELSE exitStatus = << 1 >> /\ ErrorCount = 1

\* C8 as amended: a destination that cannot be created, a bad answer of the
\* version endpoint, a non-200 download status and a short archive each print
\* their one '** Error: ...' line and exit with status 1; an exception raised
\* by a request, by int() or during extraction ends the run with status 1
\* and a traceback, without an '** Error: ...' line; an install and a skip
\* exit with status 0.
C8_FatalConditions ==
    Exited =>
      CASE stage \in {"installed", "skip"} ->
             exitStatus = << 0 >> /\ ErrorCount = 0 /\ ~Printed(Traceback)
        [] stage = "dir" ->
             /\ exitStatus = << 1 >> /\ ErrorCount = 1
             /\ LastLine = ErrDir /\ ~Printed(Traceback)
        [] stage = "query" ->
             /\ exitStatus = << 1 >>
             /\ \/ ErrorCount = 1 /\ LastLine = ErrVersion /\ ~Printed(Traceback)
                \/ ErrorCount = 0 /\ LastLine = Traceback
        [] stage = "status" ->
             /\ exitStatus = << 1 >> /\ ErrorCount = 1
             /\ LastLine = ErrDownload /\ ~Printed(Traceback)
        [] stage = "size" ->
             /\ exitStatus = << 1 >> /\ ErrorCount = 1
             /\ LastLine = ErrArchive /\ ~Printed(Traceback)
        [] stage \in {"request", "extract"} ->
             /\ exitStatus = << 1 >> /\ ErrorCount = 0
             /\ LastLine = Traceback
        [] OTHER -> FALSE

C8_Witness ==
    /\ Exited /\ stage = "extract"
    /\ exitStatus = << 1 >>
    /\ ErrorCount = 0
    /\ LastLine = Traceback

\* C9 as stated: a run that ends with status 0 has printed a completion
\* message when verbose or debug is set, and has printed nothing when
\* neither is set.
C9_Original ==
    (Exited /\ exitStatus = << 0 >>) =>
      IF param_verbose \/ param_debug
      THEN Printed(MsgDone) \/ Printed(MsgCurrent) \/ Printed(WarnNewer)
      ELSE out = <<>>

\* C9 as amended: a run that installed prints the Done line, as its last
\* line, exactly when verbose is set (debug alone does not print it), and
\* with neither flag prints nothing but the warning about an unusable
\* record; a run that skipped prints no Done line and ends, whatever the
\* flags, with the 'is current' line or the 'local newer' warning.
C9_CompletionMessages ==
    (Exited /\ exitStatus = << 0 >>) =>
      /\ stage \in {"installed", "skip"}
      /\ stage = "installed" =>
            /\ Printed(MsgDone) <=> param_verbose
            /\ param_verbose => LastLine = MsgDone
            /\ (~param_verbose /\ ~param_debug) =>
                  out = Say(~param_forceupdate /\ start.ini \in CorruptRecords,
                            << WarnIni >>)
      /\ stage = "skip" =>
            /\ ~Printed(MsgDone)
            /\ LastLine = (IF online_version[1] < ini_version[1]
                           THEN WarnNewer ELSE MsgCurrent)

C9_Witness ==
    /\ Exited /\ stage = "installed"
    /\ param_debug /\ ~param_verbose
    /\ ~Printed(MsgDone)

\* C10: writing the version record with V and reading it back with read_ini
\* and int() yields V, and writing the same V again leaves the record as it
\* was.
C10_RoundTrip ==
    /\ pc = "rt_read" =>
         /\ ini_version = online_version
         /\ PyInt(read_ini(ini, SectionName, KeyName)) = online_version
    /\ (pc \in {"rt_written", "rt_read"} /\ run >= 2) => ini = start.ini

C10_Witness ==
    /\ pc = "rt_read"
    /\ run = 2
    /\ online_version[1] >= 100
    /\ ini_version = online_version
    /\ ini = start.ini

\* C11: once an instance has released its handle, no later operation on
\* it hands a handle to the library: init and data_receive raise
\* RuntimeError, finish, destroy and the finalizer do nothing, the library
\* is never handed a handle that is not live, and dof_destroy is called at
\* most once for the instance.
C11_NoUseAfterRelease ==
    /\ ~misuse
    /\ \A o \in DofObjects :
          /\ destroyCount[o] <= 1
          /\ released[o] => self_handle[o] = 0
    /\ lastOp.released_before =>
          /\ lastOp.calls = <<>>
          /\ lastOp.op \in {"init", "data_receive"} =>
                lastOp.raised = "RuntimeError"
          /\ lastOp.op \in {"finish", "destroy", "__del__", "__exit__"} =>
                lastOp.raised = "none"

C11_Witness ==
    /\ lastOp.released_before
    /\ lastOp.op = "data_receive"
    /\ lastOp.raised = "RuntimeError"
    /\ lastOp.calls = <<>>
    /\ destroyCount[lastOp.obj] = 1

\* C12: leaving a with block whose instance still has its handle calls
\* dof_finish and then dof_destroy for that handle, each once, whether or
\* not the body raised; with no handle left it calls nothing; an exception
\* of the body is propagated.
C12_ExitFinishesThenDestroys ==
    lastOp.op = "__exit__" =>
      /\ lastOp.live_before =>
            /\ Len(lastOp.calls) = 2
            /\ lastOp.calls[1].fn = "dof_finish"
            /\ lastOp.calls[2].fn = "dof_destroy"
            /\ lastOp.calls[1].handle = lastOp.calls[2].handle
            /\ lastOp.calls[2].handle \notin liveHandles
      /\ ~lastOp.live_before => lastOp.calls = <<>>
      /\ lastOp.propagated = lastOp.body_raised
      /\ self_handle[lastOp.obj] = 0

C12_Witness ==
    /\ lastOp.op = "__exit__"
    /\ lastOp.live_before
    /\ lastOp.body_raised /\ lastOp.propagated
    /\ Len(lastOp.calls) = 2

\* C13: at every point, between the statements of set_log_callback too, the
\* callback pointer the library holds is null or is the wrapper that
\* _log_callback_ref holds, so that no log message calls a released wrapper.
C13_RegisteredCallbackIsHeld ==
    /\ native_cb = 0 \/ native_cb = log_callback_ref
    /\ logResult \in {"none", "dropped", "delivered"}

====
